---- MODULE Spec2Model ----
(***************************************************************************)
(* ROI reduction consumer of ae-gpcam                                      *)
(* (bluesky_config/scripts/roi_reduction_consumer.py).                     *)
(*                                                                         *)
(* RemoteDispatcher receives framed messages from a 0MQ socket, decodes    *)
(* them and schedules the dispatch of every decoded document on the event  *)
(* loop; a RunRouter hands the documents of a run to the ROIPicker created *)
(* for it, which reduces event pages with compute_peak_area and publishes  *)
(* a derived run.  compute_peak_area is also called on its own (SpecPeak),  *)
(* and the RedisQueue of bluesky_config/ipython/adaptive_gpcam_count.py    *)
(* has its own specification (SpecQueue), as has the XCACompanion of       *)
(* companion/xca.py (SpecXCA).                                             *)
(*                                                                         *)
(* Numbers: Q values are integers in units of 1/1000, intensities are      *)
(* integers, and a peak area is kept exactly as 12 times its value (the    *)
(* background is a mean of means of at most 3 samples, so 12 clears every  *)
(* denominator).  A float NaN is an explicit flag.                         *)
(***************************************************************************)
EXTENDS Integers, Sequences, FiniteSets, TLC

\* ---- bounds of the exploration ----------------------------------------
MaxMsgs == 4
MaxReady == 2
\* the longest curve and the highest sample handed to compute_peak_area alone
MaxLen == 8
MaxHeight == 2
\* the number of values put on a RedisQueue
MaxPuts == 4
\* the number of measured points an XCACompanion keeps
MaxPoints == 2

\* ---- Python values ------------------------------------------------------
None == [some |-> FALSE]
Some(v) == [some |-> TRUE, val |-> v]

Min(a, b) == IF a < b THEN a ELSE b
Max(a, b) == IF a > b THEN a ELSE b

RECURSIVE SumSeq(_)
SumSeq(s) == IF s = <<>> THEN 0 ELSE Head(s) + SumSeq(Tail(s))

\* s[a:b] of a Python sequence: negative bounds count from the end, both
\* bounds are clamped to [0, len]
PySlice(s, a, b) ==
    LET n == Len(s)
        norm(i) == IF i < 0 THEN Max(i + n, 0) ELSE Min(i, n)
        lo == norm(a)
        hi == norm(b)
    IN IF lo < hi THEN SubSeq(s, lo + 1, hi) ELSE <<>>

\* np.searchsorted(Q, v) (side='left'): binary search over [lo, hi)
RECURSIVE Bisect(_, _, _, _)
Bisect(Q, v, lo, hi) ==
    IF lo >= hi THEN lo
    ELSE LET mid == (lo + hi) \div 2
         IN IF Q[mid + 1] < v THEN Bisect(Q, v, mid + 1, hi)
                              ELSE Bisect(Q, v, lo, mid)

searchsorted(Q, v) == Bisect(Q, v, 0, Len(Q))

\* np.diff
Diff(q) == [k \in 1..Max(Len(q) - 1, 0) |-> q[k + 1] - q[k]]

\* ---- compute_peak_area --------------------------------------------------
\* a float result: nan, or the exact value x12 / 12
Num(v) == [raises |-> FALSE, nan |-> FALSE, x12 |-> v]
NaN == [raises |-> FALSE, nan |-> TRUE, x12 |-> 0]
ValueError == [raises |-> TRUE, nan |-> FALSE, x12 |-> 0]

\* the background taken as a third of the sums: windows of 3 samples assumed
Background12_thirds(left, right) == 2 * SumSeq(left) + 2 * SumSeq(right)

\* 12 * background, when both background windows are non-empty
Background12(left, right) ==
    (6 \div Len(left)) * SumSeq(left) + (6 \div Len(right)) * SumSeq(right)

\* without stop += 1
compute_peak_area_no_extend(Q, I, q_start, q_stop) ==
    LET start == searchsorted(Q, q_start)
        stop == searchsorted(Q, q_stop)
        data_section == PySlice(I, start, stop)
        q_section == PySlice(Q, start, stop + 1)
        dQ == Diff(q_section)
        left == PySlice(I, start - 3, start)
        right == PySlice(I, stop, stop + 3)
        bgnan == left = <<>> \/ right = <<>>
        nd == Len(data_section)
        nq == Len(dQ)
        compatible == nd = nq \/ nd = 1 \/ nq = 1
        n == IF nd = nq THEN nd ELSE IF nd = 1 THEN nq ELSE nd
        bg12 == IF bgnan THEN 0 ELSE Background12(left, right)
        term(k) == (12 * data_section[IF nd = 1 THEN 1 ELSE k] - bg12)
                       * dQ[IF nq = 1 THEN 1 ELSE k]
    IN IF ~compatible THEN ValueError
       ELSE IF n = 0 THEN Num(0)
       ELSE IF bgnan THEN NaN
       ELSE Num(SumSeq([k \in 1..n |-> term(k)]))

compute_peak_area(Q, I, q_start, q_stop) ==
    LET start == searchsorted(Q, q_start)
        stop == searchsorted(Q, q_stop) + 1
        data_section == PySlice(I, start, stop)
        q_section == PySlice(Q, start, stop + 1)
        dQ == Diff(q_section)
        left == PySlice(I, start - 3, start)
        right == PySlice(I, stop, stop + 3)
        bgnan == left = <<>> \/ right = <<>>
        nd == Len(data_section)
        nq == Len(dQ)
        \* numpy broadcasting of two 1-d arrays
        compatible == nd = nq \/ nd = 1 \/ nq = 1
        n == IF nd = nq THEN nd ELSE IF nd = 1 THEN nq ELSE nd
        bg12 == IF bgnan THEN 0 ELSE Background12(left, right)
        term(k) == (12 * data_section[IF nd = 1 THEN 1 ELSE k] - bg12)
                       * dQ[IF nq = 1 THEN 1 ELSE k]
    IN IF ~compatible THEN ValueError
       ELSE IF n = 0 THEN Num(0)
       ELSE IF bgnan THEN NaN
       ELSE Num(SumSeq([k \in 1..n |-> term(k)]))

\* peak_location = (2.63, 2.7), in units of 1/1000
peak_location == <<2630, 2700>>

\* 2 * np.mean(peak_location) is q_start + q_stop; the mean is 2665
Q_00 == (peak_location[1] + peak_location[2]) \div 2

\* ---- curves used as event-page rows ------------------------------------
QGood == <<2570, 2590, 2610, 2630, 2650, 2670, 2690, 2710, 2730, 2750, 2770>>
IGood == <<1, 1, 1, 5, 9, 9, 5, 1, 1, 1, 1>>
IGood2 == <<0, 0, 3, 4, 8, 8, 4, 0, 3, 0, 0>>
\* the window starts at the first sample: empty left background window
QLow == <<2630, 2650, 2670, 2690, 2710, 2730, 2750, 2770, 2790>>
ILow == <<5, 9, 9, 5, 1, 1, 1, 1, 1>>
\* the window ends beyond the last sample: shapes of I section and dQ differ
QShort == <<2570, 2590, 2610, 2630, 2650, 2670, 2690>>
IShort == <<1, 1, 1, 5, 9, 9, 5>>

\* ---- documents -----------------------------------------------------------
Uids == {"A", "B"}

\* a key that a document does not carry
MISSING == "MISSING"

\* doc.get(key, default)
Get(doc, key, default) == IF doc[key] = MISSING THEN default ELSE doc[key]

StartDoc(uid, stage, sample) ==
    [name |-> "start", uid |-> uid, original_start_uid |-> "raw" \o uid,
     analysis_stage |-> stage, sample_name |-> sample, q |-> <<>>, mean |-> <<>>]
\* the documents after Start name their run: run is the uid of its Start
RunDoc(name, run, q, mean) ==
    [name |-> name, uid |-> run, original_start_uid |-> MISSING,
     analysis_stage |-> MISSING, sample_name |-> MISSING, q |-> q, mean |-> mean]

\* sample names, by the path parse_name takes on them
NameParses == "Ti50Cu50_300C_10min_1-2_3-4"
NameFails == "Ti50Cu50_300C_x_1-2_3-4"

\* pickle.loads of the valid pickles that occur on the wire
PickleTable ==
    [pSA |-> StartDoc("A", "integration", MISSING),
     pSAo |-> StartDoc("A", "other", MISSING),
     pSB |-> StartDoc("B", "integration", NameParses),
     pSBf |-> StartDoc("B", "integration", NameFails),
     pSBm |-> StartDoc("B", MISSING, MISSING),
     pDA |-> RunDoc("descriptor", "A", <<>>, <<>>),
     pEA0 |-> RunDoc("event_page", "A", <<>>, <<>>),
     pEA1 |-> RunDoc("event_page", "A", <<QGood>>, <<IGood>>),
     pEAx |-> RunDoc("event_page", "A", <<QLow, QShort, QGood>>,
                     <<ILow, IShort, IGood>>),
     pEB1 |-> RunDoc("event_page", "B", <<QGood>>, <<IGood2>>),
     pXA |-> RunDoc("stop", "A", <<>>, <<>>),
     pXB |-> RunDoc("stop", "B", <<>>, <<>>)]

Pickles == DOMAIN PickleTable

\* ---- wire format ----------------------------------------------------------
\* a message is a sequence of byte chunks; SP is the byte b' '
SP == " "
\* a chunk that is not valid UTF-8
BadUtf8 == "xFF"
Junk == "junk"

\* position of the first SP at or after from, 0 if there is none
IndexOfSP(m, from) ==
    IF \E i \in from..Len(m) : m[i] = SP
    THEN CHOOSE i \in from..Len(m) :
             m[i] = SP /\ \A j \in from..(i - 1) : m[j] # SP
    ELSE 0

\* message.split(b' ', 2): at most two splits, so at most three fields
Split2(m) ==
    LET i == IndexOfSP(m, 1)
    IN IF i = 0 THEN <<m>>
       ELSE LET j == IndexOfSP(m, i + 1)
            IN IF j = 0
               THEN <<SubSeq(m, 1, i - 1), SubSeq(m, i + 1, Len(m))>>
               ELSE <<SubSeq(m, 1, i - 1), SubSeq(m, i + 1, j - 1),
                      SubSeq(m, j + 1, Len(m))>>

\* name.decode(): fails on bytes that are not UTF-8; the name fields on the
\* wire are empty or one chunk
Decodes(field) == \A i \in 1..Len(field) : field[i] # BadUtf8
Decode(field) == IF field = <<>> THEN "" ELSE field[1]

\* the members of bluesky's DocumentNames enum
DocumentNames ==
    {"stop", "start", "descriptor", "event", "datum", "resource",
     "event_page", "datum_page", "bulk_datum", "bulk_events"}

\* the default deserializer, pickle.loads: reads one pickle from the head of
\* the body and ignores what follows it
Deserializes(body) == body # <<>> /\ body[1] \in Pickles
Deserialize(body) == PickleTable[body[1]]

Frame(prefix, name, body) == prefix \o <<SP>> \o <<name>> \o <<SP>> \o body

\* frames of the upstream publisher: prefix b'an', a kind, the pickled document
GoodFrames == {Frame(<<"an">>, PickleTable[p].name, <<p>>) : p \in Pickles}

OtherFrames ==
    {\* another publisher's prefix
     Frame(<<"xx">>, "start", <<"pSA">>),
     Frame(<<"xx">>, "stop", <<Junk>>),
     \* an empty prefix
     Frame(<<>>, "stop", <<"pXA">>),
     \* a body that is no pickle, an empty body, bytes after the pickle
     Frame(<<"an">>, "stop", <<Junk>>),
     Frame(<<"an">>, "stop", <<>>),
     Frame(<<"an">>, "stop", <<"pXB", SP, Junk>>),
     \* a kind that is no member of DocumentNames
     Frame(<<"an">>, "bogus", <<"pXA">>)}

MalformedFrames ==
    {<<>>, <<"an">>, <<"an", SP, "start">>, <<"xx", SP, "stop">>,
     Frame(<<"an">>, BadUtf8, <<"pXA">>),
     Frame(<<"xx">>, BadUtf8, <<"pXA">>)}

Frames == GoodFrames \cup OtherFrames \cup MalformedFrames

\* the prefixes a RemoteDispatcher is constructed with
Prefixes == {<<>>, <<"an">>}

\* ---- state -----------------------------------------------------------------
VARIABLES
    our_prefix,   \* RemoteDispatcher._prefix
    closed,       \* RemoteDispatcher.closed
    task,         \* RemoteDispatcher._task: "none", "running", "crashed"
    loop,         \* the event loop: "idle", "running", "stopped"
    main,         \* the caller of start()/stop(): "idle", "run_forever",
                  \* "RuntimeError"
    ready,        \* the callbacks scheduled with loop.call_soon, oldest first
    nrecv,        \* messages taken from the socket so far
    sent,         \* run uid -> the analysis_stage of its Start on the wire
    deserialized, \* the last turn of _poll called the deserializer
    printed,      \* the document kind in the "something bad happened" line
                  \* that the last turn of _poll printed, None if it did not
    handled,      \* the last callback the loop ran: the document's kind
                  \* and the callbacks the router handed it to
    pickers,      \* the ROIPicker instances created so far
    bound,        \* RunRouter: run uid -> the callbacks bound to the run
    pub,          \* what the zmq publisher was called with, in order
    peak,         \* a call of compute_peak_area: its arguments and result
    rq,           \* a RedisQueue: the redis list and what get returned
    xca           \* an XCACompanion: what it was told, its cache, its cycle
                  \* of strips, and the outcome of the last call

vars == <<our_prefix, closed, task, loop, main, ready, nrecv, sent,
          deserialized, printed, handled, pickers, bound, pub, peak, rq,
          xca>>

dispatcherVars == <<our_prefix, closed, task, loop, main>>
pollVars == <<nrecv, sent, deserialized, printed>>
routerVars == <<handled, pickers, bound, pub>>
\* the pure functions and the queue of the other script are not touched by
\* the consumer
otherVars == <<peak, rq, xca>>

\* ---- ROIPicker ------------------------------------------------------------
DescriptorKeys == {"I_00", "Q_00", "ctrl_Ti", "ctrl_annealing_time", "ctrl_temp"}

\* ROIPicker.__init__; pages, rows, stopped and err record what was delivered
ROIPicker_init ==
    [source_uid |-> MISSING, sample_name |-> MISSING, start_bundle |-> None,
     desc_bundle |-> None, data |-> None,
     pages |-> 0, rows |-> 0, stopped |-> FALSE, err |-> ""]

Pub(kind, src, keys) == [kind |-> kind, src |-> src, keys |-> keys]

\* a handler's outcome: the instance after it and what it published
Outcome(p, out) == [p |-> p, out |-> out]

\* ROIPicker.start of instance i
ROIPicker_start(p, i, doc) ==
    Outcome([p EXCEPT !.source_uid = doc.original_start_uid,
                      !.sample_name = doc.sample_name,
                      !.start_bundle =
                          Some([raw_uid |-> doc.original_start_uid,
                                integrated_uid |-> doc.uid]),
                      !.err = ""],
            <<Pub("start", i, {})>>)

\* parse_name raises ValueError on a name whose time field is no number
parse_name_raises(inp) == inp = NameFails

\* the control values event_page mirrors out
Ctrl(sample_name) ==
    IF sample_name # MISSING
    THEN [ti |-> 1, at |-> 2, temp |-> 3]
    ELSE [ti |-> 4, at |-> 5, temp |-> 6]

Entry(area, c) ==
    [I_00 |-> area, Q_00 |-> Q_00, ctrl_Ti |-> c.ti,
     ctrl_annealing_time |-> c.at, ctrl_temp |-> c.temp]

\* the loop over zip(q, mean) from row k on: stops at the first row whose
\* reduction raises
RECURSIVE Accumulate(_, _, _, _, _)
Accumulate(data, q, mean, k, c) ==
    IF k > Min(Len(q), Len(mean)) THEN [data |-> data, raised |-> FALSE]
    ELSE LET area == compute_peak_area(q[k], mean[k],
                                       peak_location[1], peak_location[2])
         IN IF area.raises THEN [data |-> data, raised |-> TRUE]
            ELSE Accumulate(Append(data, Entry(area, c)), q, mean, k + 1, c)

\* ROIPicker.event_page of instance i
ROIPicker_event_page(p, i, doc) ==
    LET first == p.desc_bundle = None
        out == IF first THEN <<Pub("descriptor", i, DescriptorKeys)>> ELSE <<>>
        p1 == IF first
              THEN [p EXCEPT !.desc_bundle = Some(DescriptorKeys),
                             !.data = Some(<<>>)]
              ELSE p
        p2 == [p1 EXCEPT !.pages = @ + 1,
                         !.rows = @ + Min(Len(doc.q), Len(doc.mean))]
    IN IF p2.sample_name # MISSING /\ parse_name_raises(p2.sample_name)
       THEN Outcome([p2 EXCEPT !.err = "ValueError"], out)
       ELSE LET acc == Accumulate(p2.data.val, doc.q, doc.mean, 1,
                                  Ctrl(p2.sample_name))
            IN Outcome([p2 EXCEPT !.data = Some(acc.data),
                                  !.err = IF acc.raised THEN "ValueError"
                                          ELSE ""],
                       out)

\* the fields of the event composed at stop
EventKeys(data) == (DOMAIN data[1]) \cup {"I_00_variance"}

\* stop without the test of len(self._data): self._data[0] of an empty list
ROIPicker_stop_unguarded(p, i, doc, lenient) ==
    LET p1 == [p EXCEPT !.stopped = TRUE]
    IN IF p1.data = None
       THEN Outcome([p1 EXCEPT !.err = "TypeError"], <<>>)
       ELSE IF Len(p1.data.val) = 0
       THEN Outcome([p1 EXCEPT !.err = "IndexError"], <<>>)
       ELSE Outcome([p1 EXCEPT !.err = ""],
                    <<Pub("event", i, (DOMAIN p1.data.val[1])
                                          \cup {"I_00_variance"}),
                      Pub("stop", i, {})>>)

\* ROIPicker.stop of instance i.  compose_event is event_model's: it takes
\* an event whose fields are those of the descriptor; on another set of
\* fields it either raises or composes the event, by the library version
\* (lenient)
ROIPicker_stop(p, i, doc, lenient) ==
    LET p1 == [p EXCEPT !.stopped = TRUE]
    IN IF p1.data = None
       THEN \* len(None)
            Outcome([p1 EXCEPT !.err = "TypeError"], <<>>)
       ELSE IF Len(p1.data.val) > 0
       THEN LET keys == EventKeys(p1.data.val)
            IN IF keys = p1.desc_bundle.val \/ lenient
               THEN Outcome([p1 EXCEPT !.err = ""],
                            <<Pub("event", i, keys), Pub("stop", i, {})>>)
               ELSE Outcome([p1 EXCEPT !.err = "EventModelValidationError"],
                            <<>>)
       ELSE Outcome([p1 EXCEPT !.err = ""], <<Pub("stop", i, {})>>)

\* a factory that hands out one ROIPicker for all runs
xpdan_result_picker_shared(instances, start_doc) ==
    IF Get(start_doc, "analysis_stage", "") = "integration"
    THEN IF instances = <<>>
         THEN [instances |-> <<ROIPicker_init>>, cbs |-> <<1>>]
         ELSE [instances |-> instances, cbs |-> <<1>>]
    ELSE [instances |-> instances, cbs |-> <<>>]

\* a factory that does not look at analysis_stage
xpdan_result_picker_unfiltered(instances, start_doc) ==
    [instances |-> Append(instances, ROIPicker_init),
     cbs |-> <<Len(instances) + 1>>]

\* xpdan_result_picker(name, start_doc): the callbacks it returns, as indices
\* into the instances; an integration run gets a new ROIPicker
xpdan_result_picker(instances, start_doc) ==
    IF Get(start_doc, "analysis_stage", "") = "integration"
    THEN [instances |-> Append(instances, ROIPicker_init),
          cbs |-> <<Len(instances) + 1>>]
    ELSE [instances |-> instances, cbs |-> <<>>]

\* ---- RunRouter --------------------------------------------------------------
\* rr = RunRouter([xpdan_result_picker_factory(...)]): one factory, which
\* returns at most one callback, so a run has at most one callback bound.
\* The result of routing one document: instances, bindings, publications.
Routed(ps, b, out, cbs) ==
    [pickers |-> ps, bound |-> b, out |-> out, cbs |-> cbs]

\* start: ask the factory, bind what it returns, hand it the start document
RouteStart(doc) ==
    LET f == xpdan_result_picker(pickers, doc)
    IN IF f.cbs = <<>>
       THEN Routed(f.instances, [bound EXCEPT ![doc.uid] = <<>>], <<>>, <<>>)
       ELSE LET i == f.cbs[1]
                r == ROIPicker_start(f.instances[i], i, doc)
            IN Routed([f.instances EXCEPT ![i] = r.p],
                      [bound EXCEPT ![doc.uid] = f.cbs], r.out, f.cbs)

\* a lookup that falls back on the newest instance
Callbacks_fallback(run) ==
    IF bound[run] # <<>> THEN bound[run]
    ELSE IF pickers # <<>> THEN <<Len(pickers)>> ELSE <<>>

\* the callbacks a document of a run goes to
Callbacks(run) == bound[run]

\* descriptor, event_page: to the callbacks bound to the run, if any
\* (ROIPicker has no descriptor method: DocumentRouter's does nothing)
RouteDoc(name, doc) ==
    LET cbs == Callbacks(doc.uid)
    IN IF cbs = <<>> \/ name # "event_page"
       THEN Routed(pickers, bound, <<>>, cbs)
       ELSE LET i == cbs[1]
                r == ROIPicker_event_page(pickers[i], i, doc)
            IN Routed([pickers EXCEPT ![i] = r.p], bound, r.out, cbs)

\* stop: to the callbacks bound to the run, then the binding is removed
RouteStop(doc, lenient) ==
    LET cbs == Callbacks(doc.uid)
    IN IF cbs = <<>>
       THEN Routed(pickers, bound, <<>>, cbs)
       ELSE LET i == cbs[1]
                r == ROIPicker_stop(pickers[i], i, doc, lenient)
            IN Routed([pickers EXCEPT ![i] = r.p],
                      [bound EXCEPT ![doc.uid] = <<>>], r.out, cbs)

\* rr(name, doc)
Route(name, doc, lenient) ==
    IF name = "start" THEN RouteStart(doc)
    ELSE IF name = "stop" THEN RouteStop(doc, lenient)
    ELSE RouteDoc(name, doc)

\* ---- RemoteDispatcher -------------------------------------------------------
\* a loop that runs the newest callback first
call_soon_lifo(queue, cb) == <<cb>> \o queue

\* loop.call_soon(self.process, DocumentNames[name], doc): callbacks run in
\* the order they were scheduled; seq is the arrival number of the message
call_soon(queue, cb) == Append(queue, cb)

\* prefix == our_prefix alone
PrefixMatches_exact(ours, prefix) == prefix = ours

\* (not our_prefix) or prefix == our_prefix
PrefixMatches(ours, prefix) == ours = <<>> \/ prefix = ours

\* a document that stands for none
NoDoc == RunDoc("", "", <<>>, <<>>)

\* the head of a turn of _poll on message m:
\*     prefix, name, doc = message.split(b' ', 2); name = name.decode()
\* which raises unless m has three fields and a name that decodes
Unpack(m) ==
    LET f == Split2(m)
    IN IF Len(f) # 3
       THEN [raises |-> "ValueError", prefix |-> <<>>, name |-> "",
             body |-> <<>>]
       ELSE IF ~Decodes(f[2])
       THEN [raises |-> "UnicodeDecodeError", prefix |-> f[1], name |-> "",
             body |-> f[3]]
       ELSE [raises |-> "", prefix |-> f[1], name |-> Decode(f[2]),
             body |-> f[3]]

\* the body of the try on the fields u of a message:
\*     doc = self._deserializer(doc); ... DocumentNames[name] ...
Load(u) ==
    IF ~Deserializes(u.body) THEN [raises |-> "UnpicklingError", doc |-> NoDoc]
    ELSE IF u.name \notin DocumentNames
    THEN [raises |-> "KeyError", doc |-> Deserialize(u.body)]
    ELSE [raises |-> "", doc |-> Deserialize(u.body)]

\* both, for the frames of the wire
Unpacked == [m \in Frames |-> Unpack(m)]
Loaded == [m \in Frames |-> Load(Unpack(m))]

WellFormed(m) == Unpacked[m].raises = ""
Dispatchable(m) == Loaded[m].raises = ""

\* the Start documents on the wire carry uids that were never used before
Unsent == "-"

StartOf(m) ==
    IF ~WellFormed(m) THEN {}
    ELSE IF ~Dispatchable(m) THEN {}
    ELSE IF Unpacked[m].name = "start"
    THEN {Loaded[m].doc} ELSE {}

Receivable(m) == \A d \in StartOf(m) : sent[d.uid] = Unsent

Sent(m) ==
    [u \in Uids |->
        IF \E d \in StartOf(m) : d.uid = u
        THEN Get(CHOOSE d \in StartOf(m) : d.uid = u, "analysis_stage", "")
        ELSE sent[u]]

\* one turn of the loop of _poll on message m: the unpacking or the decoding
\* of the name raises out of the coroutine
PollCrash(m) ==
    /\ ~WellFormed(m)
    /\ task' = "crashed"
    /\ nrecv' = nrecv + 1
    /\ deserialized' = FALSE
    /\ printed' = None
    /\ UNCHANGED <<our_prefix, closed, loop, main, ready, sent, routerVars>>

\* ... the prefix is not ours: on to the next message
PollIgnore(m) ==
    /\ WellFormed(m)
    /\ ~PrefixMatches(our_prefix, Unpacked[m].prefix)
    /\ nrecv' = nrecv + 1
    /\ sent' = Sent(m)
    /\ deserialized' = FALSE
    /\ printed' = None
    /\ UNCHANGED <<dispatcherVars, ready, routerVars>>

\* the deserializer called outside the try
PollBad_uncaught(m) ==
    /\ WellFormed(m)
    /\ PrefixMatches(our_prefix, Unpacked[m].prefix)
    /\ ~Dispatchable(m)
    /\ nrecv' = nrecv + 1
    /\ deserialized' = TRUE
    /\ printed' = None
    /\ task' = "crashed"
    /\ UNCHANGED <<our_prefix, closed, loop, main, ready, sent, routerVars>>

\* ... the deserializer or the lookup of the kind raises: caught and printed
PollBad(m) ==
    /\ WellFormed(m)
    /\ PrefixMatches(our_prefix, Unpacked[m].prefix)
    /\ ~Dispatchable(m)
    /\ nrecv' = nrecv + 1
    /\ deserialized' = TRUE
    /\ printed' = Some(Unpacked[m].name)
    /\ UNCHANGED <<dispatcherVars, ready, sent, routerVars>>

\* ... the document is scheduled for dispatch
PollDispatch(m) ==
    /\ WellFormed(m)
    /\ PrefixMatches(our_prefix, Unpacked[m].prefix)
    /\ Dispatchable(m)
    /\ Len(ready) < MaxReady
    /\ nrecv' = nrecv + 1
    /\ deserialized' = TRUE
    /\ printed' = None
    /\ sent' = Sent(m)
    /\ ready' = call_soon(ready, [name |-> Unpacked[m].name,
                                  doc |-> Loaded[m].doc,
                                  seq |-> nrecv + 1])
    /\ UNCHANGED <<dispatcherVars, routerVars>>

\* _poll, resumed by the loop with the message m that the socket delivers
Poll(m) ==
    /\ task = "running" /\ loop = "running"
    /\ nrecv < MaxMsgs
    /\ Receivable(m)
    /\ \/ PollCrash(m)
       \/ PollIgnore(m)
       \/ PollBad(m)
       \/ PollDispatch(m)
    /\ UNCHANGED otherVars

\* the consumer that the routing r handed the document to raised
Raised(r) == r.cbs # <<>> /\ r.pickers[r.cbs[1]].err # ""

\* the dispatch made inside the receive task: what the consumer raises ends
\* the task
Process_inline(lenient) ==
    /\ loop = "running"
    /\ ready # <<>>
    /\ LET cb == Head(ready)
           r == Route(cb.name, cb.doc, lenient)
       IN /\ pickers' = r.pickers
          /\ bound' = r.bound
          /\ pub' = pub \o r.out
          /\ handled' = Some([name |-> cb.name, cbs |-> r.cbs])
          /\ task' = IF Raised(r) THEN "crashed" ELSE task
    /\ ready' = Tail(ready)
    /\ UNCHANGED <<our_prefix, closed, loop, main, pollVars, otherVars>>

\* the loop runs the oldest scheduled callback: Dispatcher.process hands the
\* document to the subscribed RunRouter; what a callback raises stays in the
\* callback
Process(lenient) ==
    /\ loop = "running"
    /\ ready # <<>>
    /\ LET cb == Head(ready)
           r == Route(cb.name, cb.doc, lenient)
       IN /\ pickers' = r.pickers
          /\ bound' = r.bound
          /\ pub' = pub \o r.out
          /\ handled' = Some([name |-> cb.name, cbs |-> r.cbs])
    /\ ready' = Tail(ready)
    /\ UNCHANGED <<dispatcherVars, pollVars, otherVars>>

\* stop() that leaves the loop running
stop_no_halt ==
    /\ loop' = loop
    /\ task' = "none"
    /\ closed' = TRUE

\* RemoteDispatcher.stop
stop ==
    /\ loop' = IF task # "none" THEN "stopped" ELSE loop
    /\ task' = "none"
    /\ closed' = TRUE

\* start() without the test of closed
Start_unchecked ==
    /\ main # "run_forever"
    /\ task' = "running"
    /\ loop' = "running"
    /\ main' = "run_forever"
    /\ UNCHANGED <<our_prefix, closed, ready, pollVars, routerVars, otherVars>>

\* start() is called
Start ==
    /\ main # "run_forever"
    /\ IF closed
       THEN /\ main' = "RuntimeError"
            /\ UNCHANGED <<task, loop>>
       ELSE /\ task' = "running"
            /\ loop' = "running"
            /\ main' = "run_forever"
    /\ UNCHANGED <<our_prefix, closed, ready, pollVars, routerVars, otherVars>>

\* a BaseException (an interrupt) leaves run_forever: start() stops and
\* raises it again
Interrupt ==
    /\ main = "run_forever"
    /\ stop
    /\ main' = "idle"
    /\ UNCHANGED <<our_prefix, ready, pollVars, routerVars, otherVars>>

\* stop() is called from outside start()
Stop ==
    /\ main # "run_forever"
    /\ stop
    /\ main' = "idle"
    /\ UNCHANGED <<our_prefix, ready, pollVars, routerVars, otherVars>>

Init ==
    /\ our_prefix \in Prefixes
    /\ closed = FALSE
    /\ task = "none"
    /\ loop = "idle"
    /\ main = "idle"
    /\ ready = <<>>
    /\ nrecv = 0
    /\ sent = [u \in Uids |-> Unsent]
    /\ handled = None
    /\ deserialized = FALSE
    /\ printed = None
    /\ pickers = <<>>
    /\ bound = [u \in Uids |-> <<>>]
    /\ pub = <<>>
    /\ peak = None
    /\ rq = None
    /\ xca = None

Next ==
    \/ Start
    \/ Stop
    \/ Interrupt
    \/ \E m \in Frames : Poll(m)
    \/ \E lenient \in BOOLEAN : Process(lenient)

Spec == Init /\ [][Next]_vars

\* ---- compute_peak_area called on its own ---------------------------------
\* the consumer as constructed by the script, which takes no step here
Constructed ==
    /\ our_prefix = <<"an">>
    /\ closed = FALSE
    /\ task = "none"
    /\ loop = "idle"
    /\ main = "idle"
    /\ ready = <<>>
    /\ nrecv = 0
    /\ sent = [u \in Uids |-> Unsent]
    /\ handled = None
    /\ deserialized = FALSE
    /\ printed = None
    /\ pickers = <<>>
    /\ bound = [u \in Uids |-> <<>>]
    /\ pub = <<>>

consumerVars == <<dispatcherVars, ready, pollVars, routerVars>>

\* strictly increasing Q of n samples: bins of width 2, and of width 3
\* between samples g and g + 1
QGrid(n, g) == [k \in 1..n |-> 2 * k + (IF k > g THEN 1 ELSE 0)]

\* I of n samples: h at sample p, 0 elsewhere (p = 0: all 0)
Impulse(n, p, h) == [k \in 1..n |-> IF k = p THEN h ELSE 0]

\* the constants added to every sample of I
Offsets == {-1, 2}

\* I + c
Shift(I, c) == [k \in DOMAIN I |-> I[k] + c]

InitPeak ==
    /\ Constructed
    /\ rq = None
    /\ xca = None
    /\ \E n \in 1..MaxLen : \E g \in 0..n : \E p \in 0..n :
       \E h \in 1..MaxHeight :
       \E a \in (QGrid(n, g)[1] - 1)..(QGrid(n, g)[n] + 1) :
       \E b \in a..(QGrid(n, g)[n] + 1) :
           /\ p = 0 => h = 1
           /\ peak = [Q |-> QGrid(n, g), I |-> Impulse(n, p, h),
                      q_start |-> a, q_stop |-> b,
                      c |-> 0, area |-> None, shifted |-> None]

\* compute_peak_area(Q, I, q_start, q_stop) and, for the comparison,
\* compute_peak_area(Q, I + c, q_start, q_stop)
CallComputePeakArea(c) ==
    /\ peak.area = None
    /\ peak' = [peak EXCEPT
                   !.c = c,
                   !.area = Some(compute_peak_area(peak.Q, peak.I,
                                                   peak.q_start, peak.q_stop)),
                   !.shifted = Some(compute_peak_area(peak.Q, Shift(peak.I, c),
                                                      peak.q_start,
                                                      peak.q_stop))]
    /\ UNCHANGED <<consumerVars, rq, xca>>

NextPeak == \E c \in Offsets : CallComputePeakArea(c)

SpecPeak == InitPeak /\ [][NextPeak]_vars

\* ---- RedisQueue (bluesky_config/ipython/adaptive_gpcam_count.py) ---------
\* the values put are proposals: tuples, lists or dicts, told apart by the
\* number of the put
Proposal(typ, id) == [typ |-> typ, id |-> id]
ProposalTypes == {"tuple", "list", "dict"}

\* json.dumps writes a tuple and a list as the same array and a dict as an
\* object; json.loads reads an array as a list
json_dumps(value) ==
    [json |-> IF value.typ = "dict" THEN "object" ELSE "array", id |-> value.id]
json_loads(text) ==
    Proposal(IF text.json = "object" THEN "dict" ELSE "list", text.id)

\* redis LPUSH: the value becomes the head of the list
lpush(list, x) == <<x>> \o list

\* redis LPOP and BLPOP take the head of the list
lpop(list) == IF list = <<>> THEN None ELSE Some(Head(list))

InitQueue ==
    /\ Constructed
    /\ peak = None
    /\ xca = None
    /\ rq = [list |-> <<>>, nput |-> 0, got |-> <<>>, last |-> ""]

\* RedisQueue.put(value)
put(typ) ==
    /\ rq.nput < MaxPuts
    /\ rq' = [rq EXCEPT !.list = lpush(@, json_dumps(Proposal(typ, rq.nput + 1))),
                        !.nput = @ + 1,
                        !.last = "put"]
    /\ UNCHANGED <<consumerVars, peak, xca>>

\* RedisQueue.get(timeout, block=True): blpop waits for an element; with a
\* timeout > 0 it returns None when the time is up on an empty list, with
\* timeout = 0 it waits on
get_block(timeout) ==
    /\ LET ret == lpop(rq.list)
       IN IF ret = None
          THEN /\ timeout > 0
               /\ rq' = [rq EXCEPT !.last = "TimeoutError"]
          ELSE rq' = [rq EXCEPT !.list = Tail(@),
                               !.got = Append(@, json_loads(ret.val)),
                               !.last = "value"]
    /\ UNCHANGED <<consumerVars, peak, xca>>

\* RedisQueue.get(block=False)
get_nowait ==
    /\ LET ret == lpop(rq.list)
       IN IF ret # None
          THEN rq' = [rq EXCEPT !.list = Tail(@),
                               !.got = Append(@, json_loads(ret.val)),
                               !.last = "value"]
          ELSE rq' = [rq EXCEPT !.last = "Empty"]
    /\ UNCHANGED <<consumerVars, peak, xca>>

NextQueue ==
    \/ \E typ \in ProposalTypes : put(typ)
    \/ \E timeout \in {0, 1} : get_block(timeout)
    \/ get_nowait

SpecQueue == InitQueue /\ [][NextQueue]_vars

\* ---- XCACompanion (companion/xca.py) --------------------------------------
\* self.phasemap, the default ignore_phases, and self.phase_idx: the keys of
\* the phases of interest, in the order of the dict
phasemap == [k \in 0..3 |-> <<"MgCu2", "Mg", "Ti", "Mg2Cu">>[k + 1]]
ignore_phases == {"Mg"}
phase_idx ==
    SelectSeq(<<0, 1, 2, 3>>, LAMBDA k : phasemap[k] \notin ignore_phases)

\* strip.reference_y of the strips of the layout, which self.strip_ys cycles
StripYs == <<0, 10>>

\* np.abs(y - current_y) < 4.5 / 2
OnStrip(point, current_y) ==
    LET d == point[2] - current_y
    IN 4 * (IF d < 0 THEN -d ELSE d) < 9

\* strip_transforms.forward takes a science position to a point (x, y) of
\* the layout and raises ValueError off the layout; strip_transforms.inverse
\* takes the point back.  Two points on the first strip, one on the second
\* strip.
ForwardTable == [s1 |-> <<1, 0>>, s2 |-> <<2, 2>>, s3 |-> <<3, 10>>]
SciencePositions == DOMAIN ForwardTable \cup {"off"}
forward_raises(s) == s \notin DOMAIN ForwardTable
forward(s) == ForwardTable[s]
inverse(point) == CHOOSE s \in DOMAIN ForwardTable : ForwardTable[s] = point

\* the xs of a call of tell_many (tell passes one row): one row, or two rows
\* of which forward takes at most one (two rows taken give what two calls
\* give)
Batches ==
    {xs \in UNION {[1..k -> SciencePositions] : k \in 1..2} :
        \E i \in DOMAIN xs : \A j \in DOMAIN xs \ {i} : forward_raises(xs[j])}

\* np.argsort of column ph of the predictions dep, rows counted from 1; the
\* predictions of the points differ in every column
argsort(dep, ph) ==
    [k \in 1..Len(dep) |->
        CHOOSE j \in 1..Len(dep) :
            Cardinality({i \in 1..Len(dep) : dep[i][ph] < dep[j][ph]}) = k - 1]

\* np.argsort(self.dependent[:, phase])[mask]: the boolean mask, computed
\* from the rows of self.independent, picks positions of the sorted indices
Jdxs(ind, dep, ph, current_y) ==
    LET sorted == argsort(dep, ph)
        picked == SelectSeq([k \in 1..Len(ind) |-> k],
                            LAMBDA k : OnStrip(ind[k], current_y))
    IN [i \in 1..Len(picked) |-> sorted[picked[i]]]

\* the loop over jdxs without the test of the cache
FirstNew_unchecked(jdxs, ind, cache) == IF jdxs = <<>> THEN 0 ELSE 1

\* the loop over jdxs: the position of the first j whose point is not in the
\* cache, 0 when the loop runs out
FirstNew(jdxs, ind, cache) ==
    IF \E i \in DOMAIN jdxs : ind[jdxs[i]] \notin cache
    THEN CHOOSE i \in DOMAIN jdxs :
             /\ ind[jdxs[i]] \notin cache
             /\ \A h \in 1..(i - 1) : ind[jdxs[h]] \in cache
    ELSE 0

\* the loop over self.phase_idx for one current_y, from the phases phs on;
\* st is the cache and the proposals so far, done when ask returns
RECURSIVE AskPhases(_, _, _, _, _, _)
AskPhases(ind, dep, current_y, phs, st, n) ==
    IF phs = <<>> THEN st
    ELSE LET jdxs == Jdxs(ind, dep, Head(phs), current_y)
             f == FirstNew(jdxs, ind, st.cache)
         IN IF f = 0
            THEN AskPhases(ind, dep, current_y, Tail(phs), st, n)
            ELSE LET proposal == ind[jdxs[f]]
                     st1 == [cache |-> st.cache \cup {proposal},
                             proposals |-> Append(st.proposals,
                                                  inverse(proposal)),
                             done |-> Len(st.proposals) + 1 >= n]
                 IN IF st1.done THEN st1
                    ELSE AskPhases(ind, dep, current_y, Tail(phs), st1, n)

\* the loop over the cycle self.strip_ys from its position pos on; idle
\* counts the strips in a row that added nothing: after a whole turn of the
\* cycle without an addition the loop repeats itself for ever
RECURSIVE AskStrips(_, _, _, _, _, _)
AskStrips(ind, dep, pos, st, idle, n) ==
    IF idle = Len(StripYs)
    THEN [hangs |-> TRUE, cache |-> st.cache, proposals |-> st.proposals,
          pos |-> pos]
    ELSE LET st1 == AskPhases(ind, dep, StripYs[pos], phase_idx, st, n)
             next == (pos % Len(StripYs)) + 1
         IN IF st1.done
            THEN [hangs |-> FALSE, cache |-> st1.cache,
                  proposals |-> st1.proposals, pos |-> next]
            ELSE AskStrips(ind, dep, next, st1,
                           IF st1.cache = st.cache THEN idle + 1 ELSE 0, n)

Call(op, n, out, raises) == [op |-> op, n |-> n, out |-> out, raises |-> raises]

\* XCACompanion.__init__
InitXCA ==
    /\ Constructed
    /\ peak = None
    /\ rq = None
    /\ xca = [independent |-> None, dependent |-> None, cache |-> {},
              strip_ys |-> 1, hung |-> FALSE, last |-> Call("init", 0, <<>>, "")]

\* the rows of xs that forward takes
Kept(xs) == SelectSeq(xs, LAMBDA s : ~forward_raises(s))

\* a prediction of the model: one score per phase; the scores of an ignored
\* phase are never read and all taken as 1
PredictionRows ==
    {row \in [DOMAIN phasemap -> 1..MaxPoints] :
        \A ph \in DOMAIN phasemap :
            phasemap[ph] \in ignore_phases => row[ph] = 1}

\* the predictions for k rows
Predictions(k) == [1..k -> PredictionRows]

\* the predictions of two points differ in every phase of interest
Distinct(dep) ==
    \A i \in DOMAIN phase_idx : \A j, k \in DOMAIN dep :
        dep[j][phase_idx[i]] = dep[k][phase_idx[i]] => j = k

\* XCACompanion.tell_many(xs, ys) (and tell, with one row); y_preds are the
\* predictions of the model for the rows kept.  With no row kept, predict
\* indexes row 0 of an empty batch.
tell_many(xs) ==
    /\ ~xca.hung
    /\ LET keep == Kept(xs)
           new_independents == [i \in DOMAIN keep |-> forward(keep[i])]
           ind == IF xca.independent = None THEN <<>> ELSE xca.independent.val
           dep == IF xca.dependent = None THEN <<>> ELSE xca.dependent.val
       IN IF keep = <<>>
          THEN xca' = [xca EXCEPT !.last = Call("tell_many", 0, <<>>,
                                                "IndexError")]
          ELSE /\ Len(ind) + Len(keep) <= MaxPoints
               /\ \E y_preds \in Predictions(Len(keep)) :
                      /\ Distinct(dep \o y_preds)
                      /\ xca' = [xca EXCEPT
                                    !.independent =
                                        Some(ind \o new_independents),
                                    !.dependent = Some(dep \o y_preds),
                                    !.last = Call("tell_many", 0, <<>>, "")]
    /\ UNCHANGED <<consumerVars, peak, rq>>

\* XCACompanion.ask(n)
ask(n) ==
    /\ ~xca.hung
    /\ IF xca.independent = None
       THEN \* len(None)
            xca' = [xca EXCEPT !.last = Call("ask", n, <<>>, "TypeError")]
       ELSE LET ind == xca.independent.val
                r == AskStrips(ind, xca.dependent.val, xca.strip_ys,
                               [cache |-> xca.cache, proposals |-> <<>>,
                                done |-> FALSE],
                               0, Min(n, Len(ind)))
            IN xca' = [xca EXCEPT
                          !.cache = r.cache,
                          !.strip_ys = r.pos,
                          !.hung = r.hangs,
                          !.last = IF r.hangs THEN Call("ask", n, <<>>, "")
                                   ELSE Call("ask", n, r.proposals, "")]
    /\ UNCHANGED <<consumerVars, peak, rq>>

NextXCA ==
    \/ \E xs \in Batches : tell_many(xs)
    \/ \E n \in 1..MaxPoints : ask(n)

SpecXCA == InitXCA /\ [][NextXCA]_vars

\* ---- properties --------------------------------------------------------------
\* what instance i published, in order
PubOfIn(seq, i) == SelectSeq(seq, LAMBDA e : e.src = i)
KindsOf(i) == [k \in DOMAIN PubOfIn(pub, i) |-> PubOfIn(pub, i)[k].kind]

\* the run an instance was started for
RunOf(p) == IF p.start_bundle = None THEN "" ELSE p.start_bundle.val.integrated_uid

\* a step in which the loop runs the oldest scheduled callback
ProcessStep == ready # <<>> /\ ready' = Tail(ready)

\* the publications of a closed run that saw n event pages
ExpectedKinds(n) ==
    {<<"start">> \o (IF n >= 1 THEN <<"descriptor">> ELSE <<>>) \o e \o <<"stop">> :
        e \in {<<>>, <<"event">>}}

\* C1: once Stop has reached the consumer of a run that got Start and then N
\* event pages, the consumer has published exactly start, descriptor (iff
\* N >= 1), at most one event, stop, in that order, and nothing after it.
C1_PublicationSequence ==
    \A i \in DOMAIN pickers :
        pickers[i].stopped => KindsOf(i) \in ExpectedKinds(pickers[i].pages)

\* C2: a run that gets Start and then Stop with no event page closes without
\* an error, with no event and with exactly one stop after the start.
C2_EmptyRunCloses ==
    \A i \in DOMAIN pickers :
        pickers[i].stopped /\ pickers[i].pages = 0
            => pickers[i].err = "" /\ KindsOf(i) = <<"start", "stop">>

\* C3: a run whose event pages all have zero rows has an empty buffer, and
\* its Stop publishes stop and no event and raises nothing.
C3_EmptyPagesClose ==
    \A i \in DOMAIN pickers :
        pickers[i].pages >= 1 /\ pickers[i].rows = 0
            => /\ pickers[i].data = Some(<<>>)
               /\ pickers[i].stopped
                    => /\ pickers[i].err = ""
                       /\ KindsOf(i) = <<"start", "descriptor", "stop">>

C3_Witness ==
    \E i \in DOMAIN pickers :
        /\ pickers[i].pages >= 1 /\ pickers[i].rows = 0
        /\ pickers[i].stopped
        /\ KindsOf(i) = <<"start", "descriptor", "stop">>

\* C4: the dispatch of a document of one run leaves the instances and the
\* publications of every other run as they were, and a Start that binds a
\* consumer binds a new instance with no buffer.
C4_RunsIsolated ==
    [][ProcessStep =>
        LET cb == Head(ready)
        IN /\ \A i \in DOMAIN pickers :
                  RunOf(pickers[i]) # cb.doc.uid
                      => /\ pickers'[i] = pickers[i]
                         /\ PubOfIn(pub', i) = PubOfIn(pub, i)
           /\ cb.name = "start" /\ bound'[cb.doc.uid] # <<>>
                  => /\ Len(pickers') = Len(pickers) + 1
                     /\ bound'[cb.doc.uid] = <<Len(pickers')>>
                     /\ pickers'[Len(pickers')].data = None
                     /\ pickers'[Len(pickers')].desc_bundle = None]_vars

C4_Witness ==
    \E i, j \in DOMAIN pickers :
        /\ RunOf(pickers[i]) = "A" /\ RunOf(pickers[j]) = "B"
        /\ pickers[i].data # None /\ pickers[j].data # None
        /\ Len(pickers[i].data.val) >= 1 /\ Len(pickers[j].data.val) >= 1
        /\ handled # None /\ handled.val.name = "event_page"

\* C5: the loop runs the dispatch of a document before that of every
\* document of the same run that arrived after it, and once the Stop of a run
\* is dispatched the run has no binding and its consumer gets nothing more.
C5_InOrder ==
    [][/\ ProcessStep =>
            LET cb == Head(ready)
            IN /\ \A k \in 2..Len(ready) :
                      ready[k].doc.uid = cb.doc.uid => cb.seq < ready[k].seq
               /\ cb.name = "stop" => bound'[cb.doc.uid] = <<>>
       /\ \A i \in DOMAIN pickers :
              pickers[i].stopped => pickers'[i] = pickers[i]]_vars

C5_Witness ==
    /\ Len(ready) = 2
    /\ ready[1].doc.uid = ready[2].doc.uid
    /\ ready[1].seq < ready[2].seq
    /\ \E i \in DOMAIN pickers : pickers[i].stopped

\* C6: the dispatch of a document other than a Start whose run has no
\* binding publishes nothing, changes no consumer and no binding, and leaves
\* the receive task and the loop running.
C6_UnboundDropped ==
    [][ProcessStep /\ Head(ready).name # "start"
            /\ bound[Head(ready).doc.uid] = <<>>
        => /\ pub' = pub /\ pickers' = pickers /\ bound' = bound
           /\ task' = task /\ loop' = loop /\ closed' = closed]_vars

C6_Witness ==
    /\ handled = Some([name |-> "stop", cbs |-> <<>>])
    /\ \E i \in DOMAIN pickers : pickers[i].stopped
    /\ task = "running" /\ loop = "running"

\* C7: the dispatch of a Start creates and binds exactly one ROIPicker when
\* its analysis_stage is "integration" and otherwise binds nothing and
\* publishes nothing; every publication belongs to an integration run.
C7_FactoryFilter ==
    [][ProcessStep =>
        LET cb == Head(ready)
        IN /\ cb.name = "start" =>
                  IF cb.doc.analysis_stage = "integration"
                  THEN /\ Len(pickers') = Len(pickers) + 1
                       /\ bound'[cb.doc.uid] = <<Len(pickers')>>
                  ELSE /\ pickers' = pickers
                       /\ bound'[cb.doc.uid] = <<>>
                       /\ pub' = pub
           /\ \A k \in (Len(pub) + 1)..Len(pub') :
                  sent[RunOf(pickers'[pub'[k].src])] = "integration"]_vars

C7_Witness ==
    /\ handled = Some([name |-> "start", cbs |-> <<>>])
    /\ Len(pickers) = 1
    /\ pub # <<>>
    /\ \E u \in Uids : sent[u] \notin {Unsent, "integration"}

\* the prefix field of frame m is the configured prefix, or none is configured
Matching(m) == our_prefix = <<>> \/ Unpacked[m].prefix = our_prefix

C9_DeserializeCaught ==
    [][nrecv' = nrecv + 1 =>
        \A m \in Frames :
            \/ Unpacked[m].raises # ""
            \/ ~Matching(m)
            \/ Loaded[m].raises = ""
            \/ /\ ready' = ready
               /\ printed' = Some(Unpacked[m].name)
               /\ task' = "running" /\ loop' = "running"
               /\ pub' = pub /\ pickers' = pickers /\ bound' = bound
            \/ ~Poll(m)]_vars

C9_Witness ==
    /\ printed \in {Some("stop"), Some("bogus")}
    /\ task = "running" /\ loop = "running"
    /\ nrecv >= 2
    /\ ready # <<>>

\* C10: a message that does not split into three fields, or whose kind does
\* not decode, is dropped and the receive task goes on.
C10_MalformedRecovered ==
    [][nrecv' = nrecv + 1 =>
        \A m \in Frames :
            \/ Unpacked[m].raises = ""
            \/ task' = "running" /\ ready' = ready
            \/ ~Poll(m)]_vars

\* the consumer that the last dispatch went to raised in it
ConsumerRaised ==
    /\ handled # None /\ handled.val.cbs # <<>>
    /\ pickers[handled.val.cbs[1]].err # ""

\* C11: a dispatch in which the consumer raises leaves the receive task and
\* the loop as they were, takes nothing else from the scheduled dispatches,
\* and the messages received after it are decoded and scheduled as before.
C11_ConsumerErrorIsolated ==
    [][/\ ProcessStep /\ ConsumerRaised'
           => /\ task' = task /\ loop' = loop /\ closed' = closed
              /\ main' = main /\ nrecv' = nrecv /\ sent' = sent
       /\ ConsumerRaised /\ task = "running" /\ loop = "running"
               /\ nrecv' = nrecv + 1
           => \A m \in Frames :
                  \/ ~Matching(m) \/ Loaded[m].raises # ""
                  \/ /\ task' = "running"
                     /\ ready' = Append(ready, [name |-> Unpacked[m].name,
                                                doc |-> Loaded[m].doc,
                                                seq |-> nrecv'])
                  \/ ~Poll(m)]_vars

\* a consumer raised (stop with no buffer), and a Start received after it
\* was dispatched to a new consumer
C11_Witness ==
    /\ Len(pickers) = 2
    /\ pickers[1].err = "TypeError"
    /\ pickers[2].start_bundle # None
    /\ task = "running" /\ loop = "running"

\* C12: once closed is set it stays set, no receive task is created and the
\* loop is not run again; a later start() raises RuntimeError.
C12_AlreadyClosed ==
    [][closed => /\ closed'
                 /\ task' = "none"
                 /\ loop' # "running"
                 /\ main' # "run_forever"
                 /\ Start => main' = "RuntimeError"]_vars

\* stop() on a dispatcher that never started, then start()
C12_Witness ==
    /\ closed
    /\ main = "RuntimeError"
    /\ loop = "idle"
    /\ task = "none"

\* C13: when start() is left by an exception, or stop() is called on a
\* dispatcher with a task, the task is dropped and the loop halted; once
\* closed, no message is received, no dispatch runs and nothing is published.
C13_StopCancels ==
    [][/\ main = "run_forever" /\ main' # "run_forever"
           => closed' /\ task' = "none" /\ loop' = "stopped"
       /\ ~closed /\ closed' /\ task # "none"
           => task' = "none" /\ loop' = "stopped"
       /\ closed
           => /\ nrecv' = nrecv /\ ready' = ready
              /\ pub' = pub /\ pickers' = pickers /\ bound' = bound]_vars

\* stopped with a dispatch still scheduled and a run still open
C13_Witness ==
    /\ closed /\ loop = "stopped" /\ task = "none"
    /\ ready # <<>>
    /\ \E i \in DOMAIN pickers :
           /\ pickers[i].data # None /\ pickers[i].data.val # <<>>
           /\ ~pickers[i].stopped

\* the reduction of the row (Q, I) lacks data: the peak region or one of the
\* two background windows is empty, or the reduction raises
InsufficientData(Q, I) ==
    LET lo == searchsorted(Q, peak_location[1])
        hi == searchsorted(Q, peak_location[2]) + 1
    IN \/ PySlice(I, lo, hi) = <<>>
       \/ PySlice(I, lo - 3, lo) = <<>>
       \/ PySlice(I, hi, hi + 3) = <<>>
       \/ compute_peak_area(Q, I, peak_location[1], peak_location[2]).raises

\* the entries of the rows from k on whose reduction has its data
RECURSIVE SkipFailing(_, _, _, _)
SkipFailing(q, mean, k, c) ==
    IF k > Min(Len(q), Len(mean)) THEN <<>>
    ELSE IF InsufficientData(q[k], mean[k])
    THEN SkipFailing(q, mean, k + 1, c)
    ELSE <<Entry(compute_peak_area(q[k], mean[k],
                                   peak_location[1], peak_location[2]), c)>>
             \o SkipFailing(q, mean, k + 1, c)

\* C14: an event page appends to the buffer the entries of exactly those of
\* its rows whose reduction has its data, a failing row being skipped and the
\* rows after it still reduced; the Stop of a run whose rows all failed
\* publishes stop and no event.
C14_FailingRowsSkipped ==
    [][ProcessStep /\ bound[Head(ready).doc.uid] # <<>> =>
        LET cb == Head(ready)
            i == bound[cb.doc.uid][1]
            before == IF pickers[i].data = None THEN <<>>
                      ELSE pickers[i].data.val
        IN /\ cb.name = "event_page"
                   /\ ~(pickers[i].sample_name # MISSING
                           /\ parse_name_raises(pickers[i].sample_name))
               => pickers'[i].data =
                      Some(before \o SkipFailing(cb.doc.q, cb.doc.mean, 1,
                                                 Ctrl(pickers[i].sample_name)))
           /\ cb.name = "stop" /\ pickers[i].rows > 0
                   /\ pickers[i].data = Some(<<>>)
               => pub' = pub \o <<Pub("stop", i, {})>>]_vars

\* C17: a consumer has a buffer iff it got an event page; from the first
\* event page on it has published one descriptor and its buffer holds one
\* entry per row of the event pages delivered to it, each with the fields
\* I_00, Q_00, ctrl_Ti, ctrl_annealing_time and ctrl_temp.
C17_BufferPerRow ==
    \A i \in DOMAIN pickers :
        /\ pickers[i].data = None <=> pickers[i].pages = 0
        /\ pickers[i].pages >= 1
               => /\ Len(pickers[i].data.val) = pickers[i].rows
                  /\ \A k \in DOMAIN pickers[i].data.val :
                         DOMAIN pickers[i].data.val[k] = DescriptorKeys
                  /\ Len(SelectSeq(KindsOf(i),
                                   LAMBDA kind : kind = "descriptor")) = 1

\* C19: a Stop that finds entries in the buffer composes an event whose
\* fields are those of the descriptor the consumer published, the
\* composition is not rejected, and the event and the stop are published.
C19_EventMatchesDescriptor ==
    \A i \in DOMAIN pickers :
        pickers[i].stopped /\ pickers[i].data # None
                /\ pickers[i].data.val # <<>>
            => /\ pickers[i].err = ""
               /\ KindsOf(i) = <<"start", "descriptor", "event", "stop">>
               /\ \A k \in DOMAIN pub :
                      pub[k].src = i /\ pub[k].kind = "event"
                          => pub[k].keys = pickers[i].desc_bundle.val

\* the call of compute_peak_area was made
Called == peak # None /\ peak.area # None

\* Q[0] <= q_start <= q_stop <= Q[last]
WindowInRange ==
    /\ peak.Q[1] <= peak.q_start
    /\ peak.q_start <= peak.q_stop
    /\ peak.q_stop <= peak.Q[Len(peak.Q)]

\* a float that is a number
Finite(r) == ~r.raises /\ ~r.nan

\* C15: for a strictly increasing Q, an I of the same length and a window
\* inside the range of Q, compute_peak_area neither raises nor returns nan.
C15_FiniteInRange ==
    Called /\ WindowInRange => Finite(peak.area.val)

\* C16: where compute_peak_area(Q, I, ...) is a number,
\* compute_peak_area(Q, I + c, ...) is the same number.
C16_OffsetInvariant ==
    Called /\ Finite(peak.area.val) => peak.shifted.val = peak.area.val

\* a non-zero area over a region with the wide bin, the right background
\* window cut to 2 samples by the end of the array
C16_Witness ==
    /\ Called /\ Finite(peak.area.val)
    /\ peak.area.val.x12 # 0
    /\ peak.c = 2
    /\ peak.shifted.val = peak.area.val
    /\ searchsorted(peak.Q, peak.q_stop) + 3 = Len(peak.I)
    /\ \E k \in 1..(Len(peak.Q) - 1) :
           /\ peak.Q[k + 1] - peak.Q[k] = 3
           /\ peak.q_start <= peak.Q[k] /\ peak.Q[k] <= peak.q_stop

\* the lowest index i (from 0) with Q[i] >= v, for v <= Q[last]
LowestAtLeast(Q, v) ==
    CHOOSE i \in 0..(Len(Q) - 1) :
        /\ Q[i + 1] >= v
        /\ \A j \in 0..(i - 1) : Q[j + 1] < v

\* the window and both background windows of 3 samples lie inside the arrays
WindowsInside ==
    /\ WindowInRange
    /\ LowestAtLeast(peak.Q, peak.q_start) >= 3
    /\ LowestAtLeast(peak.Q, peak.q_stop) + 1 + 2 <= Len(peak.I) - 1

\* 12 times the reference value: I(i), Q(i) are the samples at index i from 0
Reference12 ==
    LET I(i) == peak.I[i + 1]
        Q(i) == peak.Q[i + 1]
        s == LowestAtLeast(peak.Q, peak.q_start)
        e == LowestAtLeast(peak.Q, peak.q_stop) + 1
        \* 12 * (mean(I[s-3..s-1]) + mean(I[e..e+2])) / 2
        background12 == 2 * (I(s - 3) + I(s - 2) + I(s - 1))
                            + 2 * (I(e) + I(e + 1) + I(e + 2))
    IN SumSeq([j \in 1..(e - s) |->
                  (12 * I(s + j - 1) - background12)
                      * (Q(s + j) - Q(s + j - 1))])

\* C18: where the window and both background windows of 3 samples lie inside
\* the arrays, compute_peak_area returns the reference value.
C18_Reference ==
    Called /\ WindowsInside => peak.area.val = Num(Reference12)

\* such a call, with the impulse inside the region and a non-zero area
C18_Witness ==
    /\ Called /\ WindowsInside
    /\ peak.area.val = Num(Reference12)
    /\ Reference12 # 0
    /\ peak.q_start < peak.q_stop
    /\ \E k \in DOMAIN peak.I :
           /\ peak.I[k] # 0
           /\ peak.q_start <= peak.Q[k] /\ peak.Q[k] <= peak.q_stop

\* C20: the k-th value that get returns is the k-th value that was put, no
\* value is returned twice, and a get that raises Empty found the list
\* empty and left it so.
C20_QueueFifo ==
    [][/\ \A k \in DOMAIN rq'.got : rq'.got[k].id = k
       /\ \A j, k \in DOMAIN rq'.got : rq'.got[j].id = rq'.got[k].id => j = k
       /\ rq'.last = "Empty"
           => rq.list = <<>> /\ rq'.list = <<>> /\ rq'.got = rq.got]_vars

\* the points (x, y) of the proposals that the last call returned
Proposed(x) == {forward(x.last.out[k]) : k \in DOMAIN x.last.out}

\* C21: the cache only grows, and the points a call of ask returns were not
\* in the cache before the call, are in it after the call, and are pairwise
\* different: no point is proposed twice, within a call or across calls.
C21_NeverProposedTwice ==
    [][/\ xca.cache \subseteq xca'.cache
       /\ xca'.last.op = "ask"
           => /\ Proposed(xca') \cap xca.cache = {}
              /\ Proposed(xca') \subseteq xca'.cache
              /\ Cardinality(Proposed(xca')) = Len(xca'.last.out)]_vars

\* a later call of ask that returned a point while the point proposed by an
\* earlier call was in the cache
C21_Witness ==
    /\ xca.last.op = "ask" /\ xca.last.raises = "" /\ ~xca.hung
    /\ Len(xca.last.out) = 1
    /\ Cardinality(xca.cache) = 2
    /\ Proposed(xca) \subseteq xca.cache

\* C22: a call ask(n) after a tell returns, and returns min(n, number of
\* points told) proposals.
C22_AskReturnsMin ==
    xca.last.op = "ask" /\ xca.independent # None
        => /\ ~xca.hung
           /\ xca.last.raises = ""
           /\ Len(xca.last.out) = Min(xca.last.n, Len(xca.independent.val))

====
